---------------------------- MODULE Spec2Model ----------------------------
(***************************************************************************)
(* A model of db-meta: the metadata orchestrator (src/src/meta.rs), the    *)
(* MySQL and PostgreSQL providers (src/src/mysql_meta.rs,                  *)
(* src/src/pg_meta.rs), the connection configuration and the type mappers  *)
(* (src/src/modal.rs).                                                     *)
(*                                                                         *)
(* Strings are TLA+ strings.  Option<T> is a sequence: <<>> is None and    *)
(* <<v>> is Some(v).  A Vec is a sequence; a HashMap is a function whose   *)
(* domain is its key set.                                                  *)
(***************************************************************************)
EXTENDS Integers, Sequences, FiniteSets, TLC

\* Longest generated raw type code (over TypeAlphabet) fed to the type mappers.
MaxCodeLen == 4

\* Number of get_metadata calls made on one MetadataService.
MaxRuns == 2

VARIABLES
    conn,         \* the ConnConfig handed to MetadataService::new
    db,           \* the catalog of the database server (the environment)
    pc,           \* position of the caller / of get_metadata
    handler,      \* the provider create_metadata_handler built ("none" before)
    tables_info,  \* get_metadata's local tables_info
    views_info,   \* get_metadata's local views_info
    ret,          \* what the current get_metadata call returned
    prev,         \* what the previous get_metadata call returned, Unordered
    service,      \* what MetadataService::new returned
    failed,       \* the step of the current call that failed, and its error
    runs,         \* get_metadata calls started so far
    calls,        \* provider stages invoked by the current call, in order
    connects,     \* connection attempts made by the current call
    queries,      \* catalog queries sent by the current call
    ft_code,      \* type mapper: the raw type code under test
    ft_pg,        \* type mapper: pg_field_type(ft_code), "none" before the call
    ft_mysql      \* type mapper: mysql_field_type(ft_code), "none" before the call

pipeVars == <<conn, db, pc, handler, tables_info, views_info, ret, prev, service,
              failed, runs, calls, connects, queries>>
typeVars == <<ft_code, ft_pg, ft_mysql>>
vars == <<conn, db, pc, handler, tables_info, views_info, ret, prev, service,
          failed, runs, calls, connects, queries, ft_code, ft_pg, ft_mysql>>

None == <<>>
Some(v) == <<v>>

(***************************************************************************)
(* String helpers (Rust's str methods, on ASCII).                          *)
(***************************************************************************)
UpperLetters == "ABCDEFGHIJKLMNOPQRSTUVWXYZ"
LowerLetters == "abcdefghijklmnopqrstuvwxyz"

CharAt(s, i) == SubSeq(s, i, i)

\* The letter of `dst` at the position `c` has in `src`; `c` itself when absent.
MapChar(c, src, dst) ==
    IF \E i \in 1..26 : CharAt(src, i) = c
    THEN CharAt(dst, CHOOSE i \in 1..26 : CharAt(src, i) = c)
    ELSE c

RECURSIVE to_lowercase(_)
to_lowercase(s) ==
    IF Len(s) = 0 THEN ""
    ELSE MapChar(CharAt(s, 1), UpperLetters, LowerLetters)
            \o to_lowercase(SubSeq(s, 2, Len(s)))

RECURSIVE to_uppercase(_)
to_uppercase(s) ==
    IF Len(s) = 0 THEN ""
    ELSE MapChar(CharAt(s, 1), LowerLetters, UpperLetters)
            \o to_uppercase(SubSeq(s, 2, Len(s)))

\* str::contains(pat)
contains(s, pat) ==
    \E i \in 1..(Len(s) - Len(pat) + 1) : SubSeq(s, i, i + Len(pat) - 1) = pat

\* str::starts_with(pat)
starts_with(s, pat) == Len(s) >= Len(pat) /\ SubSeq(s, 1, Len(pat)) = pat

\* str::ends_with(pat)
ends_with(s, pat) ==
    Len(s) >= Len(pat) /\ SubSeq(s, Len(s) - Len(pat) + 1, Len(s)) = pat

(***************************************************************************)
(* FieldTypeEnum and the two type mappers.                                 *)
(***************************************************************************)
FieldTypeEnum ==
    {"String", "Long", "Integer", "Float", "Double", "Boolean", "ByteArray",
     "Character", "Object", "Date", "Time", "Blob", "Clob", "Timestamp",
     "BigInt", "BigDec", "LocalDate", "LocalTime", "LocalDateTime"}

\* pg_field_type with the int rule tried before the bigint rule.
pg_field_type_int_first(code) ==
    LET db_type == to_lowercase(code) IN
    IF contains(db_type, "char") \/ contains(db_type, "text") THEN "String"
    ELSE IF contains(db_type, "int") THEN "Integer"
    ELSE IF contains(db_type, "bigint") THEN "Long"
    ELSE IF contains(db_type, "date") \/ contains(db_type, "time")
            \/ contains(db_type, "year") THEN "Date"
    ELSE IF contains(db_type, "bit") \/ db_type = "bool"
            \/ contains(db_type, "boolean") THEN "Boolean"
    ELSE IF contains(db_type, "decimal") THEN "BigDec"
    ELSE IF contains(db_type, "clob") THEN "Clob"
    ELSE IF contains(db_type, "blob") THEN "ByteArray"
    ELSE IF contains(db_type, "float") THEN "Float"
    ELSE IF contains(db_type, "double") THEN "Double"
    ELSE IF contains(db_type, "json") \/ contains(db_type, "enum") THEN "String"
    ELSE "String"

\* FieldTypeEnum::pg_field_type: the match arms are tried in order.
pg_field_type(code) ==
    LET db_type == to_lowercase(code) IN
    IF contains(db_type, "char") \/ contains(db_type, "text") THEN "String"
    ELSE IF contains(db_type, "bigint") THEN "Long"
    ELSE IF contains(db_type, "int") THEN "Integer"
    ELSE IF contains(db_type, "date") \/ contains(db_type, "time")
            \/ contains(db_type, "year") THEN "Date"
    ELSE IF contains(db_type, "bit") \/ db_type = "bool"
            \/ contains(db_type, "boolean") THEN "Boolean"
    ELSE IF contains(db_type, "decimal") THEN "BigDec"
    ELSE IF contains(db_type, "clob") THEN "Clob"
    ELSE IF contains(db_type, "blob") THEN "ByteArray"
    ELSE IF contains(db_type, "float") THEN "Float"
    ELSE IF contains(db_type, "double") THEN "Double"
    ELSE IF contains(db_type, "json") \/ contains(db_type, "enum") THEN "String"
    ELSE "String"

\* mysql_field_type with BIGINT UNSIGNED folded into the Long arm.
mysql_field_type_bigint_long(code) ==
    LET c == to_uppercase(code) IN
    IF c = "BIT" THEN "Boolean"
    ELSE IF c \in {"TINYINT", "TINYINT UNSIGNED", "SMALLINT [UNSIGNED]",
                   "MEDIUMINT [UNSIGNED]", "INTEGER"} THEN "Integer"
    ELSE IF c \in {"INTEGER UNSIGNED", "BIGINT", "BIGINT UNSIGNED"} THEN "Long"
    ELSE IF c = "FLOAT" THEN "Float"
    ELSE IF c = "DOUBLE" THEN "Double"
    ELSE IF c = "DECIMAL" THEN "BigDec"
    ELSE IF c = "DATE" THEN "Date"
    ELSE IF c = "DATETIME" THEN "LocalDateTime"
    ELSE IF c = "TIMESTAMP" THEN "Timestamp"
    ELSE IF c = "TIME" THEN "Time"
    ELSE IF c \in {"BINARY", "VARBINARY", "BLOB", "TINYBLOB", "MEDIUMBLOB",
                   "LONGBLOB", "GEOMETRY"} THEN "ByteArray"
    ELSE "String"

\* FieldTypeEnum::mysql_field_type: string patterns compared for equality.
mysql_field_type(code) ==
    LET c == to_uppercase(code) IN
    IF c = "BIT" THEN "Boolean"
    ELSE IF c \in {"TINYINT", "TINYINT UNSIGNED", "SMALLINT [UNSIGNED]",
                   "MEDIUMINT [UNSIGNED]", "INTEGER"} THEN "Integer"
    ELSE IF c \in {"INTEGER UNSIGNED", "BIGINT"} THEN "Long"
    ELSE IF c = "BIGINT UNSIGNED" THEN "BigInt"
    ELSE IF c = "FLOAT" THEN "Float"
    ELSE IF c = "DOUBLE" THEN "Double"
    ELSE IF c = "DECIMAL" THEN "BigDec"
    ELSE IF c = "DATE" THEN "Date"
    ELSE IF c = "DATETIME" THEN "LocalDateTime"
    ELSE IF c = "TIMESTAMP" THEN "Timestamp"
    ELSE IF c = "TIME" THEN "Time"
    ELSE IF c \in {"BINARY", "VARBINARY", "BLOB", "TINYBLOB", "MEDIUMBLOB",
                   "LONGBLOB", "GEOMETRY"} THEN "ByteArray"
    ELSE "String"

(***************************************************************************)
(* Collections.                                                            *)
(***************************************************************************)
\* Every order in which the rows of a result set can arrive.
RECURSIVE Orders(_)
Orders(S) ==
    IF S = {} THEN {<<>>}
    ELSE UNION {{<<x>> \o s : s \in Orders(S \ {x})} : x \in S}

\* Iterator::collect into a HashMap from (key, value) pairs: a later pair
\* with the same key replaces the earlier one.
RECURSIVE CollectMap(_)
CollectMap(kvs) ==
    IF kvs = <<>> THEN <<>>
    ELSE LET m == CollectMap(SubSeq(kvs, 1, Len(kvs) - 1))
             last == kvs[Len(kvs)]
         IN  [k \in DOMAIN m \cup {last[1]} |->
                 IF k = last[1] THEN last[2] ELSE m[k]]

\* map.entry(key).or_insert_with(Vec::new).push(value), for every pair in order.
RECURSIVE GroupPush(_)
GroupPush(kvs) ==
    IF kvs = <<>> THEN <<>>
    ELSE LET m == GroupPush(SubSeq(kvs, 1, Len(kvs) - 1))
             last == kvs[Len(kvs)]
         IN  [k \in DOMAIN m \cup {last[1]} |->
                 IF k = last[1]
                 THEN Append(IF k \in DOMAIN m THEN m[k] ELSE <<>>, last[2])
                 ELSE m[k]]

\* Flatten a sequence of sequences.
RECURSIVE Concat(_)
Concat(ss) == IF ss = <<>> THEN <<>> ELSE Head(ss) \o Concat(Tail(ss))

\* The elements of a sequence.
Range(s) == {s[i] : i \in DOMAIN s}

\* MySQL's GROUP_CONCAT of the values in order, with its default separator,
\* and equally [String]::join(sep).
RECURSIVE join(_, _)
join(ss, sep) ==
    IF Len(ss) = 0 THEN ""
    ELSE IF Len(ss) = 1 THEN ss[1]
    ELSE ss[1] \o sep \o join(Tail(ss), sep)

\* str::split(",") collected into a Vec: the pieces between the separators.
RECURSIVE split_from(_, _, _)
split_from(s, start, i) ==
    IF i > Len(s) THEN <<SubSeq(s, start, Len(s))>>
    ELSE IF CharAt(s, i) = ","
         THEN <<SubSeq(s, start, i - 1)>> \o split_from(s, i + 1, i + 1)
         ELSE split_from(s, start, i + 1)

split(s) == split_from(s, 1, 1)

\* A 64-bit integer is held as four 16-bit words, w3 the most significant,
\* in two's complement (the model checker's own integers are 32 bits wide).
I64(w3, w2, w1, w0) == [w3 |-> w3, w2 |-> w2, w1 |-> w1, w0 |-> w0]

\* The i64 of a number in 0..65535, and the i64 -1.
Small(n) == I64(0, 0, 0, n)
MinusOne64 == I64(65535, 65535, 65535, 65535)

\* `x as i32` on an i64: the low 32 bits, read as a signed number.
as_i32(x) ==
    IF x.w1 >= 32768 THEN (x.w1 - 65536) * 65536 + x.w0
    ELSE x.w1 * 65536 + x.w0

(***************************************************************************)
(* The database server's catalog (the environment the queries run on).     *)
(*   rels:    relations  [schema, name, kind ("r" table, "v" view),        *)
(*            comment (Option), attrs (sequence of attributes)]            *)
(*   indexes: indexes    [schema, table, name, cols (key columns in key    *)
(*            order), non_unique (0/1), primary (it backs the primary key  *)
(*            constraint), def (definition text)]                          *)
(* An attribute is [name, type, len, scale, nullable, comment, extra,      *)
(* default, hidden]: hidden marks a row of pg_attribute that               *)
(* information_schema.columns does not show (a system column such as ctid, *)
(* or a dropped column).                                                   *)
(***************************************************************************)
Attr(name, type) ==
    [name |-> name, type |-> type, len |-> None, scale |-> None,
     nullable |-> TRUE, comment |-> None, extra |-> "", default |-> None,
     hidden |-> FALSE]

\* A table as its owner declared it: columns, primary key, secondary indexes.
TableDecl(name, attrs, pk, idx) ==
    [name |-> name, kind |-> "r", comment |-> None, attrs |-> attrs,
     pk |-> pk, idx |-> idx]

ViewDecl(name, attrs) ==
    [name |-> name, kind |-> "v", comment |-> None, attrs |-> attrs,
     pk |-> <<>>, idx |-> {}]

IndexDecl(name, cols, non_unique) ==
    [name |-> name, cols |-> cols, non_unique |-> non_unique]

\* CHARACTER_MAXIMUM_LENGTH of a MySQL LONGTEXT column: 4294967295.
LongTextLength == I64(0, 0, 65535, 65535)

\* A single-column auto-increment primary key and a two-column unique index
\* whose key order differs from the column order.
DeclUsers ==
    TableDecl("users",
        <<[Attr("id", "bigint") EXCEPT !.nullable = FALSE,
                                       !.extra = "auto_increment",
                                       !.default = Some("nextval('users_id_seq')")],
          [Attr("email", "varchar") EXCEPT !.len = Some(Small(255)),
                                           !.comment = Some("login")]>>,
        <<"id">>,
        {IndexDecl("ux_email_id", <<"email", "id">>, 0)})

\* A two-column primary key and a one-column index that is not unique.
DeclLinks ==
    TableDecl("links",
        <<[Attr("src", "int") EXCEPT !.nullable = FALSE,
                                     !.default = Some("NEXTVAL('links_src_seq')")],
          [Attr("dst", "int") EXCEPT !.nullable = FALSE, !.default = Some("0")]>>,
        <<"src", "dst">>,
        {IndexDecl("ix_dst", <<"dst">>, 1)})

\* No primary key; an index over a column whose name holds a comma.
DeclNotes ==
    TableDecl("notes",
        <<Attr("a,b", "text"), [Attr("c", "decimal") EXCEPT !.scale = Some(2)]>>,
        <<>>,
        {IndexDecl("ix_ab_c", <<"a,b", "c">>, 1)})

\* No primary key and no index.
DeclLog ==
    TableDecl("log",
        <<[Attr("msg", "longtext") EXCEPT !.len = Some(LongTextLength)]>>,
        <<>>, {})

\* A table of another schema that shares the name of DeclUsers and has a
\* primary key over a column DeclUsers does not have.
DeclOtherUsers == TableDecl("users", <<Attr("uid", "int")>>, <<"uid">>, {})

DeclView == ViewDecl("v_users", <<Attr("id", "bigint"), Attr("email", "varchar")>>)

\* The schemas modelled: each is [own, other], the declarations of the
\* target schema and those of a second schema of the same server.
Fixtures ==
    { [own |-> {DeclUsers}, other |-> {}],
      [own |-> {DeclUsers, DeclView}, other |-> {}],
      [own |-> {DeclLinks}, other |-> {}],
      [own |-> {DeclLinks, DeclLog}, other |-> {}],
      [own |-> {DeclNotes}, other |-> {}],
      [own |-> {DeclLog, DeclView}, other |-> {}],
      [own |-> {DeclUsers}, other |-> {DeclOtherUsers}],
      [own |-> {}, other |-> {DeclOtherUsers}] }

\* A system column every PostgreSQL table has in pg_attribute (attnum < 0).
SystemAttr == [Attr("ctid", "tid") EXCEPT !.hidden = TRUE, !.nullable = FALSE]

\* The name of the index behind a declared primary key: MySQL calls it
\* PRIMARY, PostgreSQL <table>_pkey.
PkIndexName(engine, table) ==
    IF engine = "Postgresql" THEN table \o "_pkey" ELSE "PRIMARY"

\* PostgreSQL's character_maximum_length is an int4: a column declared
\* longer than that exists in MySQL only, and is PostgreSQL's text, which
\* has no declared length.
PgAttr(a) ==
    IF a.len # None /\ (a.len[1].w3 # 0 \/ a.len[1].w2 # 0 \/ a.len[1].w1 >= 32768)
    THEN [a EXCEPT !.len = None, !.type = "text"]
    ELSE a

\* The catalog rows of one declaration placed in `schema`.
RelOf(engine, schema, d) ==
    [schema |-> schema, name |-> d.name, kind |-> d.kind, comment |-> d.comment,
     attrs |-> IF engine = "Postgresql"
               THEN [n \in 1..Len(d.attrs) |-> PgAttr(d.attrs[n])]
                    \o (IF d.kind = "r" THEN <<SystemAttr>> ELSE <<>>)
               ELSE d.attrs]

IndexesOf(engine, schema, d) ==
    {[schema |-> schema, table |-> d.name, name |-> i.name, cols |-> i.cols,
      non_unique |-> i.non_unique, primary |-> FALSE,
      def |-> "CREATE INDEX " \o i.name] : i \in d.idx}
    \cup (IF d.pk = <<>> THEN {}
          ELSE {[schema |-> schema, table |-> d.name,
                 name |-> PkIndexName(engine, d.name), cols |-> d.pk,
                 non_unique |-> 0, primary |-> TRUE,
                 def |-> "CREATE UNIQUE INDEX " \o PkIndexName(engine, d.name)]})

OtherSchema == "other"

Catalog(engine, own_schema, f) ==
    [rels |-> {RelOf(engine, own_schema, d) : d \in f.own}
              \cup {RelOf(engine, OtherSchema, d) : d \in f.other},
     indexes |-> UNION ({IndexesOf(engine, own_schema, d) : d \in f.own}
                        \cup {IndexesOf(engine, OtherSchema, d) : d \in f.other})]

(***************************************************************************)
(* The data model (src/src/modal.rs).                                      *)
(***************************************************************************)
DbType == {"MySql", "Postgresql", "MariaDb", "Sqlite"}

\* validate without its last check, the one of the database name.
validate_skips_database(c) ==
    IF c.username = "" THEN "InvalidArgument"
    ELSE IF c.password = "" THEN "InvalidArgument"
    ELSE IF c.url = "" THEN "InvalidArgument"
    ELSE "Ok"

\* ConnConfig::validate: the first empty field decides the error.
validate(c) ==
    IF c.username = "" THEN "InvalidArgument"
    ELSE IF c.password = "" THEN "InvalidArgument"
    ELSE IF c.url = "" THEN "InvalidArgument"
    ELSE IF c.database = "" THEN "InvalidArgument"
    ELSE "Ok"

\* TableInfo::new: the remaining fields take their Default.
TableInfoNew(schema, table_name, comment) ==
    [schema |-> schema, table_name |-> table_name, comment |-> comment,
     pk_name |-> "", pk_column |-> "", index_columns |-> <<>>, columns |-> <<>>]

\* ViewsInfo::new
ViewsInfoNew(schema, view_name) ==
    [schema |-> schema, view_name |-> view_name, columns |-> <<>>]

(***************************************************************************)
(* The MySQL provider (src/src/mysql_meta.rs).  Each stage is a query, the *)
(* set of rows the server computes from the catalog, and the handler's     *)
(* processing of those rows in the order they arrive.                      *)
(***************************************************************************)
\* An Option<String> column read as the text MySQL stores ('' for none).
TextOrEmpty(opt) == IF opt = None THEN "" ELSE opt[1]

\* information_schema.TABLES of one schema and one TABLE_TYPE.
MysqlTablesQuery(d, database, kind) ==
    {[schema |-> r.schema, name |-> r.name, comment |-> TextOrEmpty(r.comment)] :
        r \in {x \in d.rels : x.schema = database /\ x.kind = kind}}

\* MysqlMeta::get_tables
mysql_get_tables(rows) ==
    [i \in 1..Len(rows) |->
        TableInfoNew(rows[i].schema, rows[i].name, Some(rows[i].comment))]

\* KEY_COLUMN_USAGE rows of the PRIMARY constraints of one schema: one row
\* per key column.
MysqlPrimaryKeyQuery(d, database) ==
    UNION {{[table |-> x.table, column |-> x.cols[n]] : n \in 1..Len(x.cols)} :
        x \in {i \in d.indexes : i.schema = database /\ i.name = "PRIMARY"}}

\* MysqlMeta::set_primary_key
mysql_set_primary_key(rows, table_vec) ==
    LET pk_map == CollectMap([i \in 1..Len(rows) |->
                                <<rows[i].table, rows[i].column>>])
    IN  [i \in 1..Len(table_vec) |->
            IF table_vec[i].table_name \in DOMAIN pk_map
            THEN [table_vec[i] EXCEPT !.pk_column = pk_map[table_vec[i].table_name]]
            ELSE table_vec[i]]

\* information_schema.statistics grouped by index: the key columns
\* GROUP_CONCATenated in seq_in_index order, NON_UNIQUE converted to char.
MysqlIndexQuery(d, database) ==
    {[schema |-> x.schema, table |-> x.table, index_name |-> x.name,
      columns |-> join(x.cols, ","),
      non_unique |-> IF x.non_unique = 0 THEN "0" ELSE "1"] :
        x \in {i \in d.indexes : i.schema = database /\ i.name # "PRIMARY"}}

\* The IndexInfo entries one row of the index query expands to.
MysqlIndexEntries(row) ==
    LET is_unique == row.non_unique = "0"
        columns == split(row.columns)
    IN  [j \in 1..Len(columns) |->
            <<row.table,
              [column_name |-> columns[j], index_name |-> row.index_name,
               index_def |-> "", is_unique |-> is_unique]>>]

\* MysqlMeta::set_index_key
mysql_set_index_key(rows, table_vec) ==
    LET index_map == GroupPush(Concat([i \in 1..Len(rows) |->
                                          MysqlIndexEntries(rows[i])]))
    IN  [i \in 1..Len(table_vec) |->
            IF table_vec[i].table_name \in DOMAIN index_map
            THEN [table_vec[i] EXCEPT
                     !.index_columns = index_map[table_vec[i].table_name]]
            ELSE table_vec[i]]

\* information_schema.COLUMNS of the named tables or views of one schema.
MysqlColumnsQuery(d, database, table_names) ==
    UNION {{[table |-> r.name, column_name |-> r.attrs[n].name,
             data_type |-> r.attrs[n].type, length |-> r.attrs[n].len,
             scale |-> r.attrs[n].scale,
             is_nullable |-> IF r.attrs[n].nullable THEN "YES" ELSE "NO",
             comment |-> TextOrEmpty(r.attrs[n].comment),
             extra |-> r.attrs[n].extra] : n \in 1..Len(r.attrs)} :
        r \in {x \in d.rels : x.schema = database /\ x.name \in table_names}}

\* The Column MysqlMeta::get_columns builds from one row.
MysqlColumn(row, pk_map) ==
    [name |-> row.column_name,
     column_type |-> mysql_field_type(row.data_type),
     type_name |-> row.data_type,
     length |-> as_i32(IF row.length = None THEN MinusOne64 ELSE row.length[1]),
     digit |-> IF to_uppercase(row.data_type) \in {"DECIMAL", "FLOAT", "DOUBLE"}
               THEN (IF row.scale = None THEN None
                     ELSE Some(row.scale[1]))
               ELSE None,
     is_nullable |-> row.is_nullable = "YES",
     comment |-> IF row.comment = "" THEN None ELSE Some(row.comment),
     auto_increment |-> Some(to_lowercase(row.extra) = "auto_increment"),
     column_def |-> IF row.extra = "" THEN None ELSE Some(row.extra),
     is_pk |-> row.table \in DOMAIN pk_map /\ pk_map[row.table] = row.column_name]

\* MysqlMeta::get_columns: table name -> its Columns in row order.
mysql_get_columns(rows, pk_map) ==
    GroupPush([i \in 1..Len(rows) |-> <<rows[i].table, MysqlColumn(rows[i], pk_map)>>])

\* The pk_map MysqlMeta::set_columns hands to get_columns.
MysqlPkMap(table_vec) ==
    LET with_pk == SelectSeq(table_vec, LAMBDA t : t.pk_column # "")
    IN  CollectMap([i \in 1..Len(with_pk) |->
                       <<with_pk[i].table_name, with_pk[i].pk_column>>])

\* set_columns building each entry anew from its schema, name and comment
\* instead of setting the columns of the entry it was given.
mysql_set_columns_rebuilds(rows, table_vec) ==
    LET column_map == mysql_get_columns(rows, MysqlPkMap(table_vec))
    IN  [i \in 1..Len(table_vec) |->
            IF table_vec[i].table_name \in DOMAIN column_map
            THEN [TableInfoNew(table_vec[i].schema, table_vec[i].table_name,
                               table_vec[i].comment)
                     EXCEPT !.columns = column_map[table_vec[i].table_name]]
            ELSE table_vec[i]]

\* MysqlMeta::set_columns
mysql_set_columns(rows, table_vec) ==
    LET column_map == mysql_get_columns(rows, MysqlPkMap(table_vec))
    IN  [i \in 1..Len(table_vec) |->
            IF table_vec[i].table_name \in DOMAIN column_map
            THEN [table_vec[i] EXCEPT !.columns = column_map[table_vec[i].table_name]]
            ELSE table_vec[i]]

\* MysqlMeta::get_views
mysql_get_views(rows) ==
    [i \in 1..Len(rows) |-> ViewsInfoNew(rows[i].schema, rows[i].name)]

\* MysqlMeta::set_view_columns
mysql_set_view_columns(rows, view_vec) ==
    LET column_map == mysql_get_columns(rows, <<>>)
    IN  [i \in 1..Len(view_vec) |->
            IF view_vec[i].view_name \in DOMAIN column_map
            THEN [view_vec[i] EXCEPT !.columns = column_map[view_vec[i].view_name]]
            ELSE view_vec[i]]

(***************************************************************************)
(* The PostgreSQL provider (src/src/pg_meta.rs).                           *)
(***************************************************************************)
\* Characters in byte order, for ORDER BY on text.
ByteOrder == ",0123456789ABCDEFGHIJKLMNOPQRSTUVWXYZ_abcdefghijklmnopqrstuvwxyz"

CharRank(c) ==
    IF \E i \in 1..Len(ByteOrder) : CharAt(ByteOrder, i) = c
    THEN CHOOSE i \in 1..Len(ByteOrder) : CharAt(ByteOrder, i) = c
    ELSE 0

RECURSIVE StrLess(_, _)
StrLess(a, b) ==
    IF Len(b) = 0 THEN FALSE
    ELSE IF Len(a) = 0 THEN TRUE
    ELSE IF CharAt(a, 1) = CharAt(b, 1)
         THEN StrLess(SubSeq(a, 2, Len(a)), SubSeq(b, 2, Len(b)))
         ELSE CharRank(CharAt(a, 1)) < CharRank(CharAt(b, 1))

\* ORDER BY result.table_name, result.pk_name, result.key_seq
KeyRowLess(x, y) ==
    \/ StrLess(x.table_name, y.table_name)
    \/ /\ x.table_name = y.table_name
       /\ \/ StrLess(x.pk_name, y.pk_name)
          \/ x.pk_name = y.pk_name /\ x.key_seq < y.key_seq

\* Every order of the rows that ORDER BY allows: rows that compare equal
\* arrive in any order.
RECURSIVE SortedOrders(_)
SortedOrders(S) ==
    IF S = {} THEN {<<>>}
    ELSE UNION {{<<x>> \o s : s \in SortedOrders(S \ {x})} :
                   x \in {m \in S : \A y \in S : ~KeyRowLess(y, m)}}

\* relname LIKE '%_pkey': in LIKE, _ stands for any one character.
like_pkey(name) == Len(name) >= 5 /\ ends_with(name, "pkey")

\* pg_class joined with pg_namespace (and pg_description), of schema public
\* and one relkind.
PgTablesQuery(d, kind) ==
    {[schema |-> r.schema, name |-> r.name, comment |-> r.comment] :
        r \in {x \in d.rels : x.schema = "public" /\ x.kind = kind}}

\* PgMeta::get_tables
pg_get_tables(rows) ==
    [i \in 1..Len(rows) |->
        TableInfoNew(rows[i].schema, rows[i].name, rows[i].comment)]

\* The join shared by the primary-key and the index query: pg_class ct,
\* every pg_attribute row a of ct, every index i on ct with its pg_class row
\* ci, and one row per position n of i.indkey.  No condition relates a to the
\* key, and none restricts the schema.  `pkey` selects like / not like.
PgKeyJoin(d, pkey) ==
    UNION {UNION {{[schema |-> ct.schema, table_name |-> ct.name,
                    column_name |-> ct.attrs[a].name, key_seq |-> n,
                    pk_name |-> i.name] :
                      a \in 1..Len(ct.attrs), n \in 1..Len(i.cols)} :
                 i \in {x \in d.indexes : /\ x.schema = ct.schema
                                          /\ x.table = ct.name
                                          /\ like_pkey(x.name) = pkey}} :
           ct \in d.rels}

PgPrimaryKeyQuery(d) == PgKeyJoin(d, TRUE)

\* PgMeta::set_primary_key
pg_set_primary_key(rows, table_vec) ==
    LET pk_map == CollectMap([i \in 1..Len(rows) |->
                     <<rows[i].table_name, <<rows[i].column_name, rows[i].pk_name>>>>])
    IN  [i \in 1..Len(table_vec) |->
            IF table_vec[i].table_name \in DOMAIN pk_map
            THEN [table_vec[i] EXCEPT
                     !.pk_name = pk_map[table_vec[i].table_name][2],
                     !.pk_column = pk_map[table_vec[i].table_name][1]]
            ELSE table_vec[i]]

\* The key join further joined with pg_indexes p on p.indexname = ci.relname:
\* one row per index of that name in any schema (p_schema tells them apart).
PgIndexQuery(d) ==
    UNION {{[schema |-> r.schema, table_name |-> r.table_name,
             column_name |-> r.column_name, key_seq |-> r.key_seq,
             pk_name |-> r.pk_name, indexdef |-> p.def, p_schema |-> p.schema] :
                p \in {x \in d.indexes : x.name = r.pk_name}} :
           r \in PgKeyJoin(d, FALSE)}

\* PgMeta::set_index_key.  The IndexInfo literal names three fields only.
pg_set_index_key(rows, table_vec) ==
    LET index_map == GroupPush([i \in 1..Len(rows) |->
                        <<rows[i].table_name,
                          [column_name |-> rows[i].column_name,
                           index_name |-> rows[i].pk_name,
                           index_def |-> rows[i].indexdef]>>])
    IN  [i \in 1..Len(table_vec) |->
            IF table_vec[i].table_name \in DOMAIN index_map
            THEN [table_vec[i] EXCEPT
                     !.index_columns = index_map[table_vec[i].table_name]]
            ELSE table_vec[i]]

\* information_schema.columns of the named relations of schema public.
PgColumnsQuery(d, names) ==
    UNION {{[table_name |-> r.name, column_name |-> r.attrs[n].name,
             udt_name |-> r.attrs[n].type,
             column_length |-> IF r.attrs[n].len = None THEN -1
                               ELSE as_i32(r.attrs[n].len[1]),
             numeric_scale |-> r.attrs[n].scale,
             description |-> r.attrs[n].comment,
             is_nullable |-> IF r.attrs[n].nullable THEN "YES" ELSE "NO",
             column_default |-> r.attrs[n].default] :
                n \in {k \in 1..Len(r.attrs) : ~r.attrs[k].hidden}} :
           r \in {x \in d.rels : x.schema = "public" /\ x.name \in names}}

\* PgColumn with auto_increment decided by the default text alone.
PgColumnNextvalOnly(row, pk_map) ==
    LET is_pk == row.table_name \in DOMAIN pk_map
                 /\ pk_map[row.table_name] = row.column_name
    IN  [name |-> row.column_name,
         column_type |-> pg_field_type(row.udt_name),
         type_name |-> row.udt_name,
         length |-> row.column_length,
         digit |-> row.numeric_scale,
         comment |-> row.description,
         auto_increment |->
             IF row.column_default = None THEN None
             ELSE Some(starts_with(to_lowercase(row.column_default[1]),
                                   "nextval")),
         column_def |-> row.column_default,
         is_nullable |-> row.is_nullable # "NO",
         is_pk |-> is_pk]

\* The Column PgMeta::set_columns builds from one row.
PgColumn(row, pk_map) ==
    LET is_pk == row.table_name \in DOMAIN pk_map
                 /\ pk_map[row.table_name] = row.column_name
    IN  [name |-> row.column_name,
         column_type |-> pg_field_type(row.udt_name),
         type_name |-> row.udt_name,
         length |-> row.column_length,
         digit |-> row.numeric_scale,
         comment |-> row.description,
         auto_increment |->
             IF row.column_default = None THEN None
             ELSE Some(is_pk /\ starts_with(to_lowercase(row.column_default[1]),
                                            "nextval")),
         column_def |-> row.column_default,
         is_nullable |-> row.is_nullable # "NO",
         is_pk |-> is_pk]

\* PgMeta::set_columns
pg_set_columns(rows, table_vec) ==
    LET pk_map == CollectMap([i \in 1..Len(table_vec) |->
                     <<table_vec[i].table_name, table_vec[i].pk_column>>])
        column_map == GroupPush([i \in 1..Len(rows) |->
                         <<rows[i].table_name, PgColumn(rows[i], pk_map)>>])
    IN  [i \in 1..Len(table_vec) |->
            IF table_vec[i].table_name \in DOMAIN column_map
            THEN [table_vec[i] EXCEPT !.columns = column_map[table_vec[i].table_name]]
            ELSE table_vec[i]]

\* PgMeta::get_views
pg_get_views(rows) ==
    [i \in 1..Len(rows) |-> ViewsInfoNew(rows[i].schema, rows[i].name)]

\* The Column PgMeta::set_view_columns builds from one row.
PgViewColumn(row) ==
    [name |-> row.column_name,
     column_type |-> pg_field_type(row.udt_name),
     type_name |-> row.udt_name,
     length |-> row.column_length,
     digit |-> row.numeric_scale,
     comment |-> row.description,
     auto_increment |-> None,
     column_def |-> row.column_default,
     is_nullable |-> row.is_nullable # "NO",
     is_pk |-> FALSE]

\* PgMeta::set_view_columns
pg_set_view_columns(rows, view_vec) ==
    LET column_map == GroupPush([i \in 1..Len(rows) |->
                         <<rows[i].table_name, PgViewColumn(rows[i])>>])
    IN  [i \in 1..Len(view_vec) |->
            IF view_vec[i].view_name \in DOMAIN column_map
            THEN [view_vec[i] EXCEPT !.columns = column_map[view_vec[i].view_name]]
            ELSE view_vec[i]]

(***************************************************************************)
(* The orchestrator (src/src/meta.rs).                                     *)
(***************************************************************************)
\* ConnConfig values (the port only enters the connection URL and is left
\* out): each text field empty or not, no schema or the second schema of
\* the server, every engine kind.
ConnConfigs ==
    [username : {"", "root"}, password : {"", "secret"}, url : {"", "localhost"},
     database : {"", "app"}, schema : {None, Some(OtherSchema)}, db_type : DbType]

NoResult == [kind |-> "none"]
Err(e) == [kind |-> "Err", error |-> e]
OkMetadata(tables, views) == [kind |-> "Ok", tables |-> tables, views |-> views]
NoFailure == [stage |-> "none", error |-> "none"]

\* A returned value with every list replaced by the set of its entries: what
\* is left of it when the order of the lists is disregarded.
Unordered(r) ==
    IF r.kind # "Ok" THEN r
    ELSE [kind |-> "Ok",
          tables |-> {[t EXCEPT !.index_columns = Range(t.index_columns),
                                !.columns = Range(t.columns)] : t \in Range(r.tables)},
          views |-> {[v EXCEPT !.columns = Range(v.columns)] : v \in Range(r.views)}]

\* The schema the provider's queries are restricted to: MysqlMeta uses
\* conn_config.database, PgMeta the literal 'public'.
TargetSchema(c) == IF c.db_type = "Postgresql" THEN "public" ELSE c.database

\* The match on db_type with MariaDb served by the MySQL provider.
HandlerForMariaAsMysql(db_type) ==
    CASE db_type = "Postgresql" -> "PgMeta"
      [] db_type = "MySql" -> "MysqlMeta"
      [] db_type = "MariaDb" -> "MysqlMeta"
      [] db_type = "Sqlite" -> "InvalidArgument"

\* create_metadata_handler's match on db_type.
HandlerFor(db_type) ==
    CASE db_type = "Postgresql" -> "PgMeta"
      [] db_type = "MySql" -> "MysqlMeta"
      [] db_type = "MariaDb" -> "InvalidArgument"
      [] db_type = "Sqlite" -> "InvalidArgument"

\* The statement order with set_columns and set_primary_key exchanged.
StageAfterColumnsFirst(stage) ==
    CASE stage = "create_metadata_handler" -> "get_tables"
      [] stage = "get_tables" -> "set_columns"
      [] stage = "set_columns" -> "set_index_key"
      [] stage = "set_index_key" -> "set_primary_key"
      [] stage = "set_primary_key" -> "get_views"
      [] stage = "get_views" -> "set_view_columns"
      [] stage = "set_view_columns" -> "return_ok"

\* get_metadata's statement order: where control goes when a step succeeds.
StageAfter(stage) ==
    CASE stage = "create_metadata_handler" -> "get_tables"
      [] stage = "get_tables" -> "set_primary_key"
      [] stage = "set_primary_key" -> "set_index_key"
      [] stage = "set_index_key" -> "set_columns"
      [] stage = "set_columns" -> "get_views"
      [] stage = "get_views" -> "set_view_columns"
      [] stage = "set_view_columns" -> "return_ok"

\* A step's error logged and dropped: control goes on as after a success.
AfterErrorContinues(stage) == StageAfter(stage)

\* The ? operator: where control goes when a step returns Err.
AfterError(stage) == "returned"

PipeInit ==
    /\ conn \in ConnConfigs
    /\ \E f \in Fixtures : db = Catalog(conn.db_type, TargetSchema(conn), f)
    /\ pc = "new"
    /\ service = NoResult
    /\ handler = "none"
    /\ tables_info = <<>>
    /\ views_info = <<>>
    /\ ret = NoResult
    /\ prev = NoResult
    /\ failed = NoFailure
    /\ runs = 0
    /\ calls = <<>>
    /\ connects = 0
    /\ queries = 0

TypeIdle == ft_code = "" /\ ft_pg = "none" /\ ft_mysql = "none"

\* MetadataService::new
New ==
    /\ pc = "new"
    /\ IF validate(conn) = "Ok"
       THEN service' = [kind |-> "Ok", connection |-> conn] /\ pc' = "ready"
       ELSE service' = Err(validate(conn)) /\ pc' = "rejected"
    /\ UNCHANGED <<conn, db, handler, tables_info, views_info, ret, prev, failed,
                   runs, calls, connects, queries>>
    /\ UNCHANGED typeVars

\* A step of get_metadata returns Err(e): the call returns it.
Fails(stage, e) ==
    /\ failed' = [stage |-> stage, error |-> e]
    /\ ret' = Err(e)
    /\ pc' = AfterError(stage)

\* get_metadata is called; create_metadata_handler runs.  MysqlMeta::new and
\* PgMeta::new connect to the server, which may refuse.
CreateMetadataHandler ==
    /\ pc = "ready"
    /\ runs < MaxRuns
    /\ runs' = runs + 1
    /\ LET h == HandlerFor(service.connection.db_type) IN
       IF h = "InvalidArgument"
       THEN /\ Fails("create_metadata_handler", "InvalidArgument")
            /\ UNCHANGED <<handler, connects>>
       ELSE /\ connects' = connects + 1
            /\ \/ /\ handler' = h
                  /\ pc' = StageAfter("create_metadata_handler")
                  /\ UNCHANGED <<ret, failed>>
               \/ /\ Fails("create_metadata_handler", "DbException")
                  /\ UNCHANGED handler
    /\ UNCHANGED <<conn, db, tables_info, views_info, prev, service, calls, queries>>
    /\ UNCHANGED typeVars

\* What every provider stage does besides its own work: it is invoked once
\* and sends one catalog query.
Invoke(stage) ==
    /\ pc = stage
    /\ calls' = Append(calls, stage)
    /\ queries' = queries + 1
    /\ UNCHANGED <<conn, db, handler, prev, service, runs, connects>>
    /\ UNCHANGED typeVars

\* The query of a stage fails (sqlx::Error, converted to DbException).
QueryFails(stage) ==
    /\ Fails(stage, "DbException")
    /\ UNCHANGED <<tables_info, views_info>>

Database == service.connection.database

\* The rows the catalog query of a stage returns to the current handler.
StageRows(stage) ==
    CASE stage = "get_tables" ->
            IF handler = "MysqlMeta" THEN MysqlTablesQuery(db, Database, "r")
            ELSE PgTablesQuery(db, "r")
      [] stage = "set_primary_key" ->
            IF handler = "MysqlMeta" THEN MysqlPrimaryKeyQuery(db, Database)
            ELSE PgPrimaryKeyQuery(db)
      [] stage = "set_index_key" ->
            IF handler = "MysqlMeta" THEN MysqlIndexQuery(db, Database)
            ELSE PgIndexQuery(db)
      [] stage = "set_columns" ->
            IF handler = "MysqlMeta"
            THEN MysqlColumnsQuery(db, Database,
                    {tables_info[i].table_name : i \in 1..Len(tables_info)})
            ELSE PgColumnsQuery(db,
                    {tables_info[i].table_name : i \in 1..Len(tables_info)})
      [] stage = "get_views" ->
            IF handler = "MysqlMeta" THEN MysqlTablesQuery(db, Database, "v")
            ELSE PgTablesQuery(db, "v")
      [] stage = "set_view_columns" ->
            IF handler = "MysqlMeta"
            THEN MysqlColumnsQuery(db, Database,
                    {views_info[i].view_name : i \in 1..Len(views_info)})
            ELSE PgColumnsQuery(db,
                    {views_info[i].view_name : i \in 1..Len(views_info)})

\* The query returned rows and the driver cannot decode a cell of one of
\* them as the type asked for (a text column delivered as bytes that are
\* not UTF-8, a NULL read as String, a type the driver holds incompatible).
\* Every cell is read with sqlx::Row::get, which panics on a decode error
\* (Row::try_get is the variant that returns it): the stage does not
\* return, and the panic unwinds through get_metadata.
RowGetPanics(stage) ==
    /\ StageRows(stage) # {}
    /\ pc' = "panicked"
    /\ UNCHANGED <<tables_info, views_info, ret, failed>>

GetTables ==
    /\ Invoke("get_tables")
    /\ \/ /\ IF handler = "MysqlMeta"
             THEN \E rows \in Orders(MysqlTablesQuery(db, Database, "r")) :
                     tables_info' = mysql_get_tables(rows)
             ELSE \E rows \in Orders(PgTablesQuery(db, "r")) :
                     tables_info' = pg_get_tables(rows)
          /\ pc' = StageAfter("get_tables")
          /\ UNCHANGED <<views_info, ret, failed>>
       \/ QueryFails("get_tables")
       \/ RowGetPanics("get_tables")

SetPrimaryKey ==
    /\ Invoke("set_primary_key")
    /\ \/ /\ IF handler = "MysqlMeta"
             THEN \E rows \in Orders(MysqlPrimaryKeyQuery(db, Database)) :
                     tables_info' = mysql_set_primary_key(rows, tables_info)
             ELSE \E rows \in SortedOrders(PgPrimaryKeyQuery(db)) :
                     tables_info' = pg_set_primary_key(rows, tables_info)
          /\ pc' = StageAfter("set_primary_key")
          /\ UNCHANGED <<views_info, ret, failed>>
       \/ QueryFails("set_primary_key")
       \/ RowGetPanics("set_primary_key")

SetIndexKey ==
    /\ Invoke("set_index_key")
    /\ \/ /\ IF handler = "MysqlMeta"
             THEN \E rows \in Orders(MysqlIndexQuery(db, Database)) :
                     tables_info' = mysql_set_index_key(rows, tables_info)
             ELSE \E rows \in SortedOrders(PgIndexQuery(db)) :
                     tables_info' = pg_set_index_key(rows, tables_info)
          /\ pc' = StageAfter("set_index_key")
          /\ UNCHANGED <<views_info, ret, failed>>
       \/ QueryFails("set_index_key")
       \/ RowGetPanics("set_index_key")

TableNames == {tables_info[i].table_name : i \in 1..Len(tables_info)}
ViewNames == {views_info[i].view_name : i \in 1..Len(views_info)}

SetColumns ==
    /\ Invoke("set_columns")
    /\ \/ /\ IF handler = "MysqlMeta"
             THEN \E rows \in Orders(MysqlColumnsQuery(db, Database, TableNames)) :
                     tables_info' = mysql_set_columns(rows, tables_info)
             ELSE \E rows \in Orders(PgColumnsQuery(db, TableNames)) :
                     tables_info' = pg_set_columns(rows, tables_info)
          /\ pc' = StageAfter("set_columns")
          /\ UNCHANGED <<views_info, ret, failed>>
       \/ QueryFails("set_columns")
       \/ RowGetPanics("set_columns")

GetViews ==
    /\ Invoke("get_views")
    /\ \/ /\ IF handler = "MysqlMeta"
             THEN \E rows \in Orders(MysqlTablesQuery(db, Database, "v")) :
                     views_info' = mysql_get_views(rows)
             ELSE \E rows \in Orders(PgTablesQuery(db, "v")) :
                     views_info' = pg_get_views(rows)
          /\ pc' = StageAfter("get_views")
          /\ UNCHANGED <<tables_info, ret, failed>>
       \/ QueryFails("get_views")
       \/ RowGetPanics("get_views")

SetViewColumns ==
    /\ Invoke("set_view_columns")
    /\ \/ /\ IF handler = "MysqlMeta"
             THEN \E rows \in Orders(MysqlColumnsQuery(db, Database, ViewNames)) :
                     views_info' = mysql_set_view_columns(rows, views_info)
             ELSE \E rows \in Orders(PgColumnsQuery(db, ViewNames)) :
                     views_info' = pg_set_view_columns(rows, views_info)
          /\ pc' = StageAfter("set_view_columns")
          /\ UNCHANGED <<tables_info, ret, failed>>
       \/ QueryFails("set_view_columns")
       \/ RowGetPanics("set_view_columns")

\* Ok(Metadata { tables: tables_info, views: views_info })
ReturnOk ==
    /\ pc = "return_ok"
    /\ ret' = OkMetadata(tables_info, views_info)
    /\ pc' = "returned"
    /\ UNCHANGED <<conn, db, handler, tables_info, views_info, prev, service,
                   failed, runs, calls, connects, queries>>
    /\ UNCHANGED typeVars

\* The caller keeps the returned value and may call get_metadata again on
\* the same service; the call's locals start afresh.
Again ==
    /\ pc = "returned"
    /\ runs < MaxRuns
    /\ prev' = Unordered(ret)
    /\ ret' = NoResult
    /\ pc' = "ready"
    /\ handler' = "none"
    /\ tables_info' = <<>>
    /\ views_info' = <<>>
    /\ failed' = NoFailure
    /\ calls' = <<>>
    /\ connects' = 0
    /\ queries' = 0
    /\ UNCHANGED <<conn, db, service, runs>>
    /\ UNCHANGED typeVars

Init == PipeInit /\ TypeIdle

Next ==
    \/ New
    \/ CreateMetadataHandler
    \/ GetTables
    \/ SetPrimaryKey
    \/ SetIndexKey
    \/ SetColumns
    \/ GetViews
    \/ SetViewColumns
    \/ ReturnOk
    \/ Again

Spec == Init /\ [][Next]_vars

(***************************************************************************)
(* The type mappers on their own: a raw type code is drawn and each mapper *)
(* is called on it.                                                        *)
(***************************************************************************)
TypeAlphabet == {"b", "i", "t", "n", "o", "l"}

\* Every string over TypeAlphabet of length at most n.
RECURSIVE StringsUpTo(_)
StringsUpTo(n) ==
    IF n = 0 THEN {""}
    ELSE LET shorter == StringsUpTo(n - 1)
         IN  shorter \cup {s \o c : s \in shorter, c \in TypeAlphabet}

\* Type names the two engines report, and names close to them.
TypeNames ==
    {"bit", "bool", "boolean", "tinyint", "smallint", "mediumint", "int",
     "integer", "bigint", "int2", "int4", "int8", "serial", "float", "float8",
     "double", "decimal", "numeric", "date", "datetime", "timestamp",
     "timestamptz", "time", "year", "interval", "char", "varchar", "bpchar",
     "text", "tinytext", "json", "jsonb", "enum", "uuid", "bytea", "binary",
     "varbinary", "blob", "tinyblob", "mediumblob", "longblob", "clob",
     "geometry", "point"}

Capitalize(s) == to_uppercase(SubSeq(s, 1, 1)) \o SubSeq(s, 2, Len(s))

\* The codes drawn: every short string, and every type name in three letter
\* cases, alone, as a PostgreSQL array type (_name) or with a MySQL suffix.
Codes ==
    StringsUpTo(MaxCodeLen)
    \cup {pre \o name \o suf :
             pre \in {"", "_"},
             name \in UNION {{n, to_uppercase(n), Capitalize(n)} : n \in TypeNames},
             suf \in {"", " unsigned", " UNSIGNED", " Unsigned", " [UNSIGNED]"}}

PipeIdle ==
    /\ conn = [username |-> "root", password |-> "secret", url |-> "localhost",
               database |-> "app", schema |-> None, db_type |-> "MySql"]
    /\ db = Catalog("MySql", "app", [own |-> {}, other |-> {}])
    /\ pc = "new"
    /\ service = NoResult
    /\ handler = "none"
    /\ tables_info = <<>>
    /\ views_info = <<>>
    /\ ret = NoResult
    /\ prev = NoResult
    /\ failed = NoFailure
    /\ runs = 0
    /\ calls = <<>>
    /\ connects = 0
    /\ queries = 0

TypeInit ==
    /\ PipeIdle
    /\ ft_code \in Codes
    /\ ft_pg = "none"
    /\ ft_mysql = "none"

CallPgFieldType ==
    /\ ft_pg = "none"
    /\ ft_pg' = pg_field_type(ft_code)
    /\ UNCHANGED <<ft_code, ft_mysql>>
    /\ UNCHANGED pipeVars

CallMysqlFieldType ==
    /\ ft_mysql = "none"
    /\ ft_mysql' = mysql_field_type(ft_code)
    /\ UNCHANGED <<ft_code, ft_pg>>
    /\ UNCHANGED pipeVars

TypeNext == CallPgFieldType \/ CallMysqlFieldType

TypeSpec == TypeInit /\ [][TypeNext]_vars

(***************************************************************************)
(* Properties of the type mappers (checked under TypeSpec).                *)
(***************************************************************************)
\* The patterns pg_field_type tests by containment, and the codes
\* mysql_field_type names.
PgPatterns ==
    {"char", "text", "bigint", "int", "date", "time", "year", "bit", "boolean",
     "decimal", "clob", "blob", "float", "double", "json", "enum"}

MysqlNamedCodes ==
    {"BIT", "TINYINT", "TINYINT UNSIGNED", "SMALLINT [UNSIGNED]",
     "MEDIUMINT [UNSIGNED]", "INTEGER", "INTEGER UNSIGNED", "BIGINT",
     "BIGINT UNSIGNED", "FLOAT", "DOUBLE", "DECIMAL", "DATE", "DATETIME",
     "TIMESTAMP", "TIME", "BINARY", "VARBINARY", "BLOB", "TINYBLOB",
     "MEDIUMBLOB", "LONGBLOB", "GEOMETRY"}

\* C7: both type mappers return exactly one FieldTypeEnum value for every raw
\* type code, the empty code included; a code that matches no rule yields
\* String; and mysql_field_type maps BIGINT UNSIGNED to BigInt, VARCHAR to
\* String and DECIMAL to BigDec (the enum's name for BigDecimal).
TypeMappersTotal ==
    /\ ft_pg # "none" =>
          /\ ft_pg \in FieldTypeEnum
          /\ (/\ \A p \in PgPatterns : ~contains(to_lowercase(ft_code), p)
              /\ to_lowercase(ft_code) # "bool") => ft_pg = "String"
    /\ ft_mysql # "none" =>
          /\ ft_mysql \in FieldTypeEnum
          /\ to_uppercase(ft_code) \notin MysqlNamedCodes => ft_mysql = "String"
          /\ to_uppercase(ft_code) = "BIGINT UNSIGNED" => ft_mysql = "BigInt"
          /\ to_uppercase(ft_code) = "VARCHAR" => ft_mysql = "String"
          /\ to_uppercase(ft_code) = "DECIMAL" => ft_mysql = "BigDec"

\* C7 witness: both mappers have been called on BIGINT UNSIGNED.
TypeMappersTotalWitness ==
    ft_code = "BIGINT UNSIGNED" /\ ft_mysql = "BigInt" /\ ft_pg \in FieldTypeEnum

\* A rule list: each rule is <<patterns tested by containment, codes tested
\* by equality, target>>; the first rule that matches decides, and String is
\* the default.
RECURSIVE FirstMatch(_, _)
FirstMatch(code, rules) ==
    IF rules = <<>> THEN "String"
    ELSE IF \/ \E p \in rules[1][1] : contains(code, p)
            \/ code \in rules[1][2]
         THEN rules[1][3]
         ELSE FirstMatch(code, Tail(rules))

\* The rule list as the claim states it: every pattern a substring test.
PgRulesAllSubstring ==
    << <<{"char", "text"}, {}, "String">>,
       <<{"bigint"}, {}, "Long">>,
       <<{"int"}, {}, "Integer">>,
       <<{"date", "time", "year"}, {}, "Date">>,
       <<{"bit", "bool", "boolean"}, {}, "Boolean">>,
       <<{"decimal"}, {}, "BigDec">>,
       <<{"clob"}, {}, "Clob">>,
       <<{"blob"}, {}, "ByteArray">>,
       <<{"float"}, {}, "Float">>,
       <<{"double"}, {}, "Double">>,
       <<{"json", "enum"}, {}, "String">> >>

\* The same list with bool matched only by a code equal to it.
PgRulesBoolExact ==
    [PgRulesAllSubstring EXCEPT ![5] = <<{"bit", "boolean"}, {"bool"}, "Boolean">>]

\* C8 as stated: pg_field_type returns the target of the first rule one of
\* whose patterns occurs as a substring of the lower-cased code, bool being
\* one of the substring patterns.
PgFirstSubstringRuleWins ==
    ft_pg # "none" => ft_pg = FirstMatch(to_lowercase(ft_code), PgRulesAllSubstring)

\* C8 amended: pg_field_type returns the target of the first matching rule
\* of the list in which bit and boolean are substring patterns and bool
\* matches only a code that is equal to it; bigint yields Long and timestamp
\* yields Date.
PgFirstRuleWinsBoolExact ==
    ft_pg # "none" =>
        /\ ft_pg = FirstMatch(to_lowercase(ft_code), PgRulesBoolExact)
        /\ to_lowercase(ft_code) = "bigint" => ft_pg = "Long"
        /\ to_lowercase(ft_code) = "timestamp" => ft_pg = "Date"

\* C8 witness: a code that holds both bigint and int has been mapped to Long.
PgFirstRuleWinsWitness == ft_code = "BIGINT" /\ ft_pg = "Long"

\* C9 as stated: mysql_field_type maps every member of the TINYINT family
\* (TINYINT, SMALLINT, MEDIUMINT, each with or without UNSIGNED, in any
\* letter case) and INTEGER to Integer, INTEGER UNSIGNED and BIGINT to Long,
\* and DATE, DATETIME, TIMESTAMP to Date, LocalDateTime, Timestamp.
MysqlTinyintFamilyIsInteger ==
    ft_mysql # "none" =>
        LET c == to_uppercase(ft_code) IN
        /\ c \in {"TINYINT", "TINYINT UNSIGNED", "SMALLINT", "SMALLINT UNSIGNED",
                  "MEDIUMINT", "MEDIUMINT UNSIGNED", "INTEGER"}
              => ft_mysql = "Integer"
        /\ c \in {"INTEGER UNSIGNED", "BIGINT"} => ft_mysql = "Long"
        /\ c = "DATE" => ft_mysql = "Date"
        /\ c = "DATETIME" => ft_mysql = "LocalDateTime"
        /\ c = "TIMESTAMP" => ft_mysql = "Timestamp"

(***************************************************************************)
(* Properties of the orchestrator and the providers (checked under Spec).  *)
(***************************************************************************)
StageOrder ==
    <<"get_tables", "set_primary_key", "set_index_key", "set_columns",
      "get_views", "set_view_columns">>

\* The stage was invoked by the current call and returned Ok.
StageDone(stage) ==
    /\ stage \in Range(calls)
    /\ failed.stage # stage
    /\ ~(pc = "panicked" /\ calls[Len(calls)] = stage)

AnyFieldEmpty(c) ==
    c.username = "" \/ c.password = "" \/ c.url = "" \/ c.database = ""

\* C1: in every run of get_metadata the stages invoked so far are an initial
\* part of get_tables, set_primary_key, set_index_key, set_columns,
\* get_views, set_view_columns (so none is skipped, repeated or reordered,
\* and set_columns never precedes set_primary_key), and a run that returned
\* Ok has invoked all six.
StagesInFixedOrder ==
    /\ Len(calls) <= Len(StageOrder)
    /\ calls = SubSeq(StageOrder, 1, Len(calls))
    /\ ret.kind = "Ok" => calls = StageOrder

\* C1 witness: a run returned Ok after invoking the six stages.
StagesInFixedOrderWitness ==
    ret.kind = "Ok" /\ calls = StageOrder /\ Len(ret.tables) > 0

\* C2: once a step of get_metadata has failed, the call has returned that
\* error and nothing else: the failed stage is the last one invoked and was
\* invoked once (none was invoked when provider creation failed), and no
\* Metadata is returned; a Metadata value is returned only when no step
\* failed and all six stages were invoked.
FailFast ==
    /\ failed.stage # "none" =>
          /\ pc = "returned"
          /\ ret = Err(failed.error)
          /\ IF failed.stage = "create_metadata_handler"
             THEN calls = <<>>
             ELSE /\ calls # <<>>
                  /\ calls[Len(calls)] = failed.stage
                  /\ Cardinality({i \in 1..Len(calls) : calls[i] = failed.stage}) = 1
    /\ ret.kind = "Ok" =>
          /\ failed.stage = "none"
          /\ \A i \in 1..Len(StageOrder) : StageDone(StageOrder[i])

\* C2 witness: the third stage failed and the call returned its error.
FailFastWitness ==
    /\ failed.stage = "set_index_key"
    /\ ret = Err("DbException")
    /\ calls = <<"get_tables", "set_primary_key", "set_index_key">>

\* C3: for MariaDb and Sqlite get_metadata makes no connection attempt and
\* sends no catalog query, and returns InvalidArgument; for MySql and
\* Postgresql it never returns InvalidArgument.
UnsupportedEngineNoContact ==
    /\ service.kind = "Ok" /\ service.connection.db_type \in {"MariaDb", "Sqlite"} =>
          /\ connects = 0 /\ queries = 0 /\ calls = <<>>
          /\ pc = "returned" => ret = Err("InvalidArgument")
          /\ prev.kind # "none" => prev = Err("InvalidArgument")
    /\ service.kind = "Ok" /\ service.connection.db_type \in {"MySql", "Postgresql"} =>
          /\ ret.kind = "Err" => ret.error # "InvalidArgument"
          /\ prev.kind = "Err" => prev.error # "InvalidArgument"

\* C3 witness: get_metadata returned for a Sqlite target.
UnsupportedEngineWitness ==
    /\ service.kind = "Ok" /\ service.connection.db_type = "Sqlite"
    /\ pc = "returned" /\ ret = Err("InvalidArgument") /\ connects = 0

PkFlagged(t) == {n \in 1..Len(t.columns) : t.columns[n].is_pk}

\* The table's primary key, as the catalog has it, is one column.
HasSingleColumnPk(t) ==
    \E x \in db.indexes :
        x.primary /\ x.schema = t.schema /\ x.table = t.table_name /\ Len(x.cols) = 1

\* C5 as stated: in a returned Metadata, for every table and every column of
\* it, is_pk holds exactly when the column's name is the table's pk_column;
\* a table whose primary key is one column has exactly one column flagged,
\* and a table with an empty pk_column has none.
IsPkMarksThePrimaryKey ==
    ret.kind = "Ok" =>
        \A i \in 1..Len(ret.tables) :
            LET t == ret.tables[i] IN
            /\ \A n \in 1..Len(t.columns) :
                  t.columns[n].is_pk <=> t.columns[n].name = t.pk_column
            /\ HasSingleColumnPk(t) => Cardinality(PkFlagged(t)) = 1
            /\ t.pk_column = "" => PkFlagged(t) = {}

\* The secondary (non-PRIMARY) indexes the catalog has on a table of the
\* target schema.
MysqlSecondaryIndexes(t) ==
    {x \in db.indexes :
        x.schema = Database /\ x.table = t.table_name /\ x.name # "PRIMARY"}

\* C6 as stated: after MySQL's set_index_key, for every table of the list
\* and every non-PRIMARY index on it with key columns k1..kn, the entries of
\* index_columns that carry the index's name are n entries with column_name
\* k1..kn in that order, each is_unique exactly when NON_UNIQUE is 0; and
\* every entry carries the name of such an index of that table.
MysqlIndexEntriesFollowTheKey ==
    handler = "MysqlMeta" /\ StageDone("set_index_key") =>
        \A i \in 1..Len(tables_info) :
            LET t == tables_info[i] IN
            /\ \A x \in MysqlSecondaryIndexes(t) :
                  LET mine == SelectSeq(t.index_columns,
                                        LAMBDA e : e.index_name = x.name)
                  IN  /\ [j \in 1..Len(mine) |-> mine[j].column_name] = x.cols
                      /\ \A j \in 1..Len(mine) :
                            mine[j].is_unique <=> x.non_unique = 0
            /\ \A j \in 1..Len(t.index_columns) :
                  \E x \in MysqlSecondaryIndexes(t) :
                      t.index_columns[j].index_name = x.name

\* What C10 compares of a returned Metadata whose lists are Unordered: per
\* table pk_name, pk_column, the IndexInfo entries, and the columns with
\* their is_pk and auto_increment flags.
ComparedPart(u) ==
    {[table_name |-> t.table_name, pk_name |-> t.pk_name,
      pk_column |-> t.pk_column, index_columns |-> t.index_columns,
      columns |-> {[name |-> c.name, is_pk |-> c.is_pk,
                    auto_increment |-> c.auto_increment] : c \in t.columns}] :
        t \in u.tables}

\* C10 as stated: two consecutive extractions that both returned Metadata
\* agree, up to the order of the lists, on every table's pk_name, pk_column,
\* IndexInfo entries and columns with their is_pk and auto_increment flags.
ConsecutiveExtractionsAgree ==
    prev.kind = "Ok" /\ ret.kind = "Ok" =>
        ComparedPart(Unordered(ret)) = ComparedPart(prev)

\* C11 as stated: when a stage meets a catalog value that cannot be decoded,
\* the call has returned a DbException error value; it has not panicked.
UndecodableValueReturnsDbException ==
    pc = "panicked" => ret = Err("DbException")

\* The indexes the catalog has on a table of the list whose name matches
\* '%_pkey'.
PkeyIndexes(t) ==
    {x \in db.indexes :
        x.schema = t.schema /\ x.table = t.table_name /\ like_pkey(x.name)}

\* C12 as stated: after PostgreSQL's set_primary_key, every table of the
\* list that has an index named *_pkey has that index's name as pk_name and
\* a column of that index's key as pk_column, and a table without such an
\* index has both empty.
PgPrimaryKeyColumnIsKeyMember ==
    handler = "PgMeta" /\ StageDone("set_primary_key") =>
        \A i \in 1..Len(tables_info) :
            LET t == tables_info[i] IN
            IF PkeyIndexes(t) # {}
            THEN \E x \in PkeyIndexes(t) :
                    t.pk_name = x.name /\ t.pk_column \in Range(x.cols)
            ELSE t.pk_name = "" /\ t.pk_column = ""

\* The indexes the catalog has on a table of the list whose name does not
\* match '%_pkey'.
PgSecondaryIndexes(t) ==
    {x \in db.indexes :
        x.schema = t.schema /\ x.table = t.table_name /\ ~like_pkey(x.name)}

\* C13 as stated: after PostgreSQL's set_index_key, for every table of the
\* list and every index on it not named *_pkey, with key columns k1..kn,
\* the entries of index_columns that carry the index's name are n entries
\* with column_name k1..kn in that order and the index's definition text;
\* and every entry carries the name of such an index of that table.
PgIndexEntriesFollowTheKey ==
    handler = "PgMeta" /\ StageDone("set_index_key") =>
        \A i \in 1..Len(tables_info) :
            LET t == tables_info[i] IN
            /\ \A x \in PgSecondaryIndexes(t) :
                  LET mine == SelectSeq(t.index_columns,
                                        LAMBDA e : e.index_name = x.name)
                  IN  /\ [j \in 1..Len(mine) |-> mine[j].column_name] = x.cols
                      /\ \A j \in 1..Len(mine) : mine[j].index_def = x.def
            /\ \A j \in 1..Len(t.index_columns) :
                  \E x \in PgSecondaryIndexes(t) :
                      t.index_columns[j].index_name = x.name

\* The schema the connection target asks for: its schema filter when one is
\* given, else PostgreSQL's default schema.
RequestedSchema == IF conn.schema = None THEN "public" ELSE conn.schema[1]

\* The relations of one kind the catalog has in the requested schema, by
\* schema and name.
RequestedRelations(kind) ==
    {<<x.schema, x.name>> : x \in {y \in db.rels : y.schema = RequestedSchema
                                                    /\ y.kind = kind}}

\* C14 as stated: PostgreSQL's get_tables returns exactly the relations of
\* kind 'r' of the target's schema, each once, get_views exactly those of
\* kind 'v', and no relation is in both lists.
PgListsTheRequestedSchema ==
    handler = "PgMeta" =>
        /\ StageDone("get_tables") =>
              /\ {<<tables_info[i].schema, tables_info[i].table_name>> :
                      i \in 1..Len(tables_info)} = RequestedRelations("r")
              /\ Len(tables_info) = Cardinality(RequestedRelations("r"))
        /\ StageDone("get_views") =>
              /\ {<<views_info[i].schema, views_info[i].view_name>> :
                      i \in 1..Len(views_info)} = RequestedRelations("v")
              /\ Len(views_info) = Cardinality(RequestedRelations("v"))
              /\ \A i \in 1..Len(tables_info), j \in 1..Len(views_info) :
                    <<tables_info[i].schema, tables_info[i].table_name>>
                        # <<views_info[j].schema, views_info[j].view_name>>

\* The catalog's attribute behind a column of a relation of schema public.
PublicAttr(rel_name, column_name) ==
    LET r == CHOOSE x \in db.rels : x.schema = "public" /\ x.name = rel_name
    IN  r.attrs[CHOOSE n \in 1..Len(r.attrs) : r.attrs[n].name = column_name]

\* The default-value text starts with nextval, letter case disregarded.
NextvalDefault(a) ==
    a.default # None /\ starts_with(to_lowercase(a.default[1]), "nextval")

\* C15: after PostgreSQL's set_columns, a column of a table is flagged
\* auto_increment exactly when it is flagged is_pk and the catalog's default
\* text for it starts with nextval in any letter case (so never when it is
\* not is_pk or has no default); after set_view_columns no column of a view
\* is flagged auto_increment or is_pk.
PgAutoIncrementIsPkWithNextval ==
    handler = "PgMeta" =>
        /\ StageDone("set_columns") =>
              \A i \in 1..Len(tables_info) :
                  \A n \in 1..Len(tables_info[i].columns) :
                      LET c == tables_info[i].columns[n] IN
                      c.auto_increment = Some(TRUE) <=>
                          /\ c.is_pk
                          /\ NextvalDefault(PublicAttr(tables_info[i].table_name,
                                                       c.name))
        /\ StageDone("set_view_columns") =>
              \A i \in 1..Len(views_info) :
                  \A n \in 1..Len(views_info[i].columns) :
                      /\ views_info[i].columns[n].auto_increment # Some(TRUE)
                      /\ ~views_info[i].columns[n].is_pk

\* C15 witness: a PostgreSQL run returned a table with a column flagged
\* auto_increment whose default text spells NEXTVAL in upper case.
PgAutoIncrementWitness ==
    /\ handler = "PgMeta" /\ ret.kind = "Ok"
    /\ \E i \in 1..Len(ret.tables) :
          \E n \in 1..Len(ret.tables[i].columns) :
              /\ ret.tables[i].columns[n].auto_increment = Some(TRUE)
              /\ ret.tables[i].columns[n].column_def = Some("NEXTVAL('links_src_seq')")

\* The catalog's attribute behind a column of a relation of the MySQL
\* target schema.
MysqlAttr(rel_name, column_name) ==
    LET r == CHOOSE x \in db.rels : x.schema = Database /\ x.name = rel_name
    IN  r.attrs[CHOOSE n \in 1..Len(r.attrs) : r.attrs[n].name = column_name]

\* The 64-bit value of a 32-bit signed number (sign extension).
SignExtend(n) ==
    IF n >= 0 THEN I64(0, 0, n \div 65536, n % 65536)
    ELSE I64(65535, 65535, 65536 + (n \div 65536), n % 65536)

\* C16 as stated: after MySQL's set_columns, a column's length is -1 exactly
\* when the catalog's CHARACTER_MAXIMUM_LENGTH is NULL, and otherwise is the
\* declared length, for every length up to 4294967295.
MysqlLengthIsTheDeclaredLength ==
    handler = "MysqlMeta" /\ StageDone("set_columns") =>
        \A i \in 1..Len(tables_info) :
            \A n \in 1..Len(tables_info[i].columns) :
                LET c == tables_info[i].columns[n]
                    a == MysqlAttr(tables_info[i].table_name, c.name)
                IN  /\ c.length = -1 <=> a.len = None
                    /\ a.len # None => SignExtend(c.length) = a.len[1]

\* Two records agree on every field outside F.
SameBut(t, u, F) == DOMAIN t = DOMAIN u /\ \A f \in DOMAIN t \ F : t[f] = u[f]

\* The step is the stage returning Ok.
StageReturns(stage) == pc = stage /\ pc' = StageAfter(stage)

\* The table (or view) names the rows of the stage's query carry.
RowNames(stage) ==
    {IF "table" \in DOMAIN row THEN row.table ELSE row.table_name :
        row \in StageRows(stage)}

\* A populating stage of the table list: the list keeps its entries in
\* place, each entry changes in the fields F at most, an entry named by no
\* row of the stage's query does not change, and the view list is untouched.
TableFrame(stage, F) ==
    StageReturns(stage) =>
        /\ Len(tables_info') = Len(tables_info)
        /\ \A i \in 1..Len(tables_info) :
              /\ SameBut(tables_info[i], tables_info'[i], F)
              /\ tables_info[i].table_name \notin RowNames(stage) =>
                    tables_info'[i] = tables_info[i]
        /\ views_info' = views_info

\* C17: get_tables returns entries whose pk_name, pk_column, index_columns
\* and columns are empty; set_primary_key changes pk_name and pk_column only,
\* set_index_key index_columns only, set_columns columns only, and
\* set_view_columns the columns of the views only; none of them adds,
\* removes or reorders entries or changes a schema, name or comment, an
\* entry without matching rows is left as it was, and the view stages leave
\* the table list alone.
StagesChangeOnlyTheirFields ==
    [][/\ StageReturns("get_tables") =>
             /\ \A i \in 1..Len(tables_info') :
                   /\ tables_info'[i].pk_name = ""
                   /\ tables_info'[i].pk_column = ""
                   /\ tables_info'[i].index_columns = <<>>
                   /\ tables_info'[i].columns = <<>>
             /\ views_info' = views_info
       /\ TableFrame("set_primary_key", {"pk_name", "pk_column"})
       /\ TableFrame("set_index_key", {"index_columns"})
       /\ TableFrame("set_columns", {"columns"})
       /\ StageReturns("get_views") =>
             /\ tables_info' = tables_info
             /\ \A i \in 1..Len(views_info') : views_info'[i].columns = <<>>
       /\ StageReturns("set_view_columns") =>
             /\ tables_info' = tables_info
             /\ Len(views_info') = Len(views_info)
             /\ \A i \in 1..Len(views_info) :
                   /\ SameBut(views_info[i], views_info'[i], {"columns"})
                   /\ views_info[i].view_name \notin RowNames("set_view_columns") =>
                         views_info'[i] = views_info[i]
      ]_vars

\* C17 witness: a run returned two tables, one with its primary key, index
\* entries and columns set by the three stages, the other with no key and
\* no index, left with the empty fields get_tables gave it.
StagesChangeOnlyTheirFieldsWitness ==
    /\ ret.kind = "Ok"
    /\ \E i, j \in 1..Len(ret.tables) :
          /\ ret.tables[i].pk_column # ""
          /\ ret.tables[i].index_columns # <<>>
          /\ ret.tables[i].columns # <<>>
          /\ ret.tables[j].pk_column = "" /\ ret.tables[j].pk_name = ""
          /\ ret.tables[j].index_columns = <<>>
          /\ ret.tables[j].columns # <<>>

=============================================================================
